---------------------------- MODULE Spec2Model ----------------------------
(***************************************************************************)
(* A model of BaseVMAppPlugin (baselaunch/backend_plugins/base_vm_app.py): *)
(* the launch orchestration launch_app and the helpers it calls            *)
(* (_get_or_create_kp, apply_app_firewall_settings, _get_or_create_sg,     *)
(* _get_network_id, _get_cb_launch_config, attach_public_ip,               *)
(* wait_for_http).                                                         *)
(*                                                                         *)
(* The cloud provider (CloudBridge) is the environment: its resources are  *)
(* state variables, and every call into it either succeeds or raises.      *)
(* Every provider call and every task.update_state is one step, so that    *)
(* the order of events and calls is observable.                            *)
(***************************************************************************)
EXTENDS Integers, Sequences, FiniteSets, TLC

VARIABLES
    keypairs,         \* provider.security.key_pairs: sequence of [id, name]
    security_groups,  \* provider.security.security_groups: sequence of [id, name, description, network_id, rules]
    default_network,  \* whether the provider's default network exists
    floating_ips,     \* provider.network.floating_ips(): sequence of [public_ip, in_use]
    instances,        \* provider.compute.instances: sequence of [id, public_ips, security_group, key_pair, launch_config]
    base_app,         \* self.base_app
    run,              \* per launch_app invocation: position and local variables
    events,           \* per invocation: the task.update_state calls made so far
    calls             \* per invocation: the provider calls issued so far

vars == <<keypairs, security_groups, default_network, floating_ips, instances,
          base_app, run, events, calls>>

provider == <<keypairs, security_groups, default_network, floating_ips, instances>>

-----------------------------------------------------------------------------
(* Bounds of the model. *)

\* longest "firewall" list of a configuration
MaxGroups == 2
\* longest "rules" list of a firewall group
MaxRules == 2
\* most floating IPs in the account before a launch
MaxFips == 2
\* most security groups in the account before a launch
MaxSgs == 2
\* most public IPs the provider assigns to a fresh instance
MaxPublicIps == 2
\* max_retries of wait_for_http; the source's default of 200 (line 143) scaled down
MaxRetries == 3

-----------------------------------------------------------------------------
(* Values. *)

\* Python's None, for values that are strings when present
NoVal == "None"

\* launch_app invocations (tasks)
Runs == {1, 2}

\* Python truthiness of an optional string
Truthy(x) == x \notin {NoVal, ""}

DefaultKpName == "cloudlaunch_key_pair"
DefaultSgName == "CloudLaunchDefault"
DefaultSgDesc == "Created by CloudLaunch"
DefaultRootStorageType == "instance"
DefaultRootStorageSize == 20
DefaultNetworkId == "net-default"
\* cloud_version_config.image.image_id and .default_instance_type
VersionImageId == "image-version"
VersionInstanceType == "type-default"

\* the rules of the docstring's example firewall
ExampleRules ==
    << [src_group |-> NoVal, protocol |-> "tcp", from |-> "22", to |-> "22",
        cidr |-> "0.0.0.0/0"],
       [src_group |-> "MyApp", protocol |-> "tcp", from |-> "1", to |-> "65535",
        cidr |-> NoVal],
       [src_group |-> "bd9756b8", protocol |-> "tcp", from |-> "22", to |-> "22",
        cidr |-> NoVal],
       [src_group |-> NoVal, protocol |-> "udp", from |-> "53", to |-> "53",
        cidr |-> "10.0.0.0/8"] >>

Min(a, b) == IF a <= b THEN a ELSE b

\* "rules" lists: the first n example rules
RuleLists == { SubSeq(ExampleRules, 1, n) : n \in 0..Min(MaxRules, Len(ExampleRules)) }

FirewallGroups ==
    { [securityGroup |-> n, description |-> NoVal, rules |-> rs] :
        n \in {NoVal, "MyApp"}, rs \in RuleLists }

SeqsUpTo(S, n) == UNION { [1..k -> S] : k \in 0..n }

\* "firewall" lists: the first group has any of the rule lists, the groups
\* after it all the rules allowed
Firewalls ==
    { <<>> } \cup
    { <<g>> \o rest :
        g \in FirewallGroups,
        rest \in SeqsUpTo({ h \in FirewallGroups :
                               \A rs \in RuleLists : Len(rs) <= Len(h.rules) },
                         MaxGroups - 1) }

\* the objects the provider hands out; id 0 stands for None
NoKp == [id |-> 0, name |-> NoVal, material |-> NoVal]
NoSg == [id |-> 0, name |-> NoVal]
NoInst == [id |-> 0, public_ips |-> <<>>]
NoFip == [id |-> 0, public_ip |-> NoVal]
NoLc == [present |-> FALSE, devices |-> <<>>]
NoResponse == [kind |-> "none", status_code |-> 0]

Unset == "<unset>"
NoResults ==
    [keyPair |-> NoKp, securityGroup |-> NoSg, instance |-> [id |-> 0],
     publicIP |-> Unset, applicationURL |-> Unset]

\* cloudlaunch_config = app_config.get("config_cloudlaunch", {}): every key absent
EmptyConfig ==
    [customImageID |-> NoVal, keyPair |-> NoVal, firewall |-> <<>>,
     rootStorageType |-> NoVal, rootStorageSize |-> NoVal,
     instanceType |-> NoVal, placementZone |-> NoVal, subnet |-> NoVal,
     network |-> NoVal, staticIP |-> NoVal]

\* the locals of one invocation before it starts
NewRun(pc0, cfg) ==
    [pc |-> pc0, cfg |-> cfg, img |-> NoVal, kp |-> NoKp, sg |-> NoSg,
     gi |-> 0, ri |-> 0, net_id |-> NoVal, lc |-> NoLc, inst |-> NoInst,
     static_ip |-> NoVal, results |-> NoResults, returned |-> FALSE,
     fip |-> NoFip, fips_before |-> <<>>, fips |-> <<>>, url |-> NoVal,
     count |-> 0, max_retries |-> 0, r |-> NoResponse,
     sleeps |-> 0, probes |-> 0, conn_errors |-> 0]

Last(s) == s[Len(s)]

\* the action text of the last progress event of invocation t ("" before the first)
LastEvent(t) == IF events[t] = <<>> THEN "" ELSE Last(events[t]).action

\* task.update_state(state='PROGRESSING', meta={'action': text})
UpdateState(t, text) ==
    events' = [events EXCEPT ![t] = Append(@, [state |-> "PROGRESSING",
                                               action |-> text])]

\* a call into the provider, with the stage it belongs to, its argument and
\* whether it returned (ok) or raised; "after" is the last progress event
\* emitted before the call
Issue(t, call, stage, arg, ok) ==
    calls' = [calls EXCEPT ![t] = Append(@, [call |-> call, stage |-> stage,
                                             arg |-> arg, ok |-> ok,
                                             after |-> LastEvent(t)])]

\* (mutant) an exception of a provider call is ignored
PropagateNot(ok, next) == next

\* (mutant) an exception of a provider call is caught and the results so far
\* are returned
PropagateReturns(ok, next) == IF ok THEN next ELSE "return"

\* launch_app has no try/except: an exception raised by a provider call ends it
Propagate(ok, next) == IF ok THEN next ELSE "failed"

\* (mutant) the rule loop has no exception handler
SwallowNot(ok, next) == IF ok THEN next ELSE "failed"

\* the exception handler of the rule loop prints and goes on
Swallow(ok, next) == next

Set(t, rec) == run' = [run EXCEPT ![t] = rec]

-----------------------------------------------------------------------------
(* launch_app: start, and the keypair stage. *)

\* custom_image_id or cloud_version_config.image.image_id
ImageId(cfg) ==
    IF Truthy(cfg.customImageID) THEN cfg.customImageID ELSE VersionImageId

\* cloudlaunch_config.get('keyPair') or 'cloudlaunch_key_pair'
KpName(cfg) == IF Truthy(cfg.keyPair) THEN cfg.keyPair ELSE DefaultKpName

LaunchApp(t) ==
    /\ run[t].pc = "idle"
    /\ \E ok \in BOOLEAN :
        /\ Issue(t, "images.get", "start", ImageId(run[t].cfg), ok)
        /\ Set(t, [run[t] EXCEPT
                !.pc = Propagate(ok, "emit_keypair"),
                !.img = IF ok THEN ImageId(run[t].cfg) ELSE NoVal])
    /\ UNCHANGED <<provider, base_app, events>>

EmitKeypair(t) ==
    /\ run[t].pc = "emit_keypair"
    /\ UpdateState(t, "Retrieving or creating a keypair")
    /\ Set(t, [run[t] EXCEPT !.pc = "kp_find"])
    /\ UNCHANGED <<provider, base_app, calls>>

\* provider.security.key_pairs.find(name=kp_name)
KpMatches(name) == SelectSeq(keypairs, LAMBDA k : k.name = name)

\* (mutant) the keypair is created whatever the lookup found
KpAlwaysCreate(kps) == "kp_create"

\* (mutant) the lookup is taken for a hit also when it found nothing
KpNeverCreate(kps) == "emit_firewall"

\* if kps: return kps[0] / else: create
KpAfterFind(kps) == IF kps # <<>> THEN "emit_firewall" ELSE "kp_create"

KpFind(t) ==
    /\ run[t].pc = "kp_find"
    /\ LET name == KpName(run[t].cfg)
           kps == KpMatches(name)
       IN \E ok \in BOOLEAN :
            /\ Issue(t, "key_pairs.find", "keypair", name, ok)
            /\ Set(t, [run[t] EXCEPT
                    !.pc = Propagate(ok, KpAfterFind(kps)),
                    !.kp = IF ok /\ kps # <<>>
                           THEN [id |-> kps[1].id, name |-> kps[1].name,
                                 material |-> NoVal]
                           ELSE NoKp])
    /\ UNCHANGED <<provider, base_app, events>>

KpCreate(t) ==
    /\ run[t].pc = "kp_create"
    /\ LET name == KpName(run[t].cfg)
           id == Len(keypairs) + 1
       IN \E ok \in BOOLEAN :
            /\ Issue(t, "key_pairs.create", "keypair", name, ok)
            /\ keypairs' = IF ok THEN Append(keypairs, [id |-> id, name |-> name])
                           ELSE keypairs
            /\ Set(t, [run[t] EXCEPT
                    !.pc = Propagate(ok, "emit_firewall"),
                    !.kp = IF ok THEN [id |-> id, name |-> name,
                                       material |-> "PRIVATE KEY"]
                           ELSE NoKp])
    /\ UNCHANGED <<security_groups, default_network, floating_ips, instances,
                   base_app, events>>

-----------------------------------------------------------------------------
(* apply_app_firewall_settings, _get_or_create_sg, _get_network_id. *)

EmitFirewall(t) ==
    /\ run[t].pc = "emit_firewall"
    /\ UpdateState(t, "Applying firewall settings")
    /\ Set(t, [run[t] EXCEPT !.pc = "fw_group", !.gi = 0])
    /\ UNCHANGED <<provider, base_app, calls>>

\* group.get('securityGroup') or 'CloudLaunchDefault'
SgName(group) ==
    IF Truthy(group.securityGroup) THEN group.securityGroup ELSE DefaultSgName

\* group.get('description') or 'Created by CloudLaunch'
SgDesc(group) ==
    IF Truthy(group.description) THEN group.description ELSE DefaultSgDesc

\* the group the loop of apply_app_firewall_settings is at
Group(t) == run[t].cfg.firewall[run[t].gi]

\* for group in cloudlaunch_config.get('firewall', []): the next group, or,
\* the list exhausted, the end of the function (which returns None)
FwGroup(t) ==
    /\ run[t].pc = "fw_group"
    /\ IF run[t].gi < Len(run[t].cfg.firewall)
       THEN Set(t, [run[t] EXCEPT !.pc = "sg_find", !.gi = @ + 1, !.ri = 0])
       ELSE Set(t, [run[t] EXCEPT !.pc = "plan", !.sg = NoSg])
    /\ UNCHANGED <<provider, base_app, events, calls>>

\* provider.security.security_groups.find(name=sg_name)
SgMatches(name) == SelectSeq(security_groups, LAMBDA g : g.name = name)

\* (mutant) the loops over the groups found never return
NoEqualPair(sgs) == 0

\* for sg1 in sgs: for sg2 in sgs: if sg1 == sg2: return sg1
\* (0 when the loops end without returning)
FirstEqualPair(sgs) ==
    LET hits == { i \in 1..Len(sgs) : \E j \in 1..Len(sgs) : sgs[i] = sgs[j] }
    IN IF hits = {} THEN 0
       ELSE CHOOSE i \in hits : \A k \in hits : i <= k

SgFind(t) ==
    /\ run[t].pc = "sg_find"
    /\ LET name == SgName(Group(t))
           sgs == SgMatches(name)
           hit == FirstEqualPair(sgs)
       IN \E ok \in BOOLEAN :
            /\ Issue(t, "security_groups.find", "firewall", name, ok)
            /\ Set(t, [run[t] EXCEPT
                    !.pc = Propagate(ok, IF hit # 0 THEN "fw_rule" ELSE "network"),
                    !.sg = IF ok /\ hit # 0
                           THEN [id |-> sgs[hit].id, name |-> sgs[hit].name]
                           ELSE NoSg])
    /\ UNCHANGED <<provider, base_app, events>>

\* _get_network_id: the configured network, else the provider's default one
GetNetworkId(t) ==
    /\ run[t].pc = "network"
    /\ IF Truthy(run[t].cfg.network)
       THEN /\ Set(t, [run[t] EXCEPT !.pc = "sg_create",
                                     !.net_id = run[t].cfg.network])
            /\ UNCHANGED <<default_network, calls>>
       ELSE \E ok \in BOOLEAN :
            /\ Issue(t, "network.get_or_create_default", "firewall", NoVal, ok)
            /\ default_network' = (default_network \/ ok)
            /\ Set(t, [run[t] EXCEPT
                    !.pc = Propagate(ok, "sg_create"),
                    !.net_id = IF ok THEN DefaultNetworkId ELSE NoVal])
    /\ UNCHANGED <<keypairs, security_groups, floating_ips, instances,
                   base_app, events>>

SgCreate(t) ==
    /\ run[t].pc = "sg_create"
    /\ LET name == SgName(Group(t))
           id == Len(security_groups) + 1
       IN \E ok \in BOOLEAN :
            /\ Issue(t, "security_groups.create", "firewall", name, ok)
            /\ security_groups' =
                  IF ok THEN Append(security_groups,
                                    [id |-> id, name |-> name,
                                     description |-> SgDesc(Group(t)),
                                     network_id |-> run[t].net_id,
                                     rules |-> <<>>])
                  ELSE security_groups
            /\ Set(t, [run[t] EXCEPT
                    !.pc = Propagate(ok, "fw_rule"),
                    !.sg = IF ok THEN [id |-> id, name |-> name] ELSE NoSg])
    /\ UNCHANGED <<keypairs, default_network, floating_ips, instances,
                   base_app, events>>

\* the arguments add_rule is called with for a rule of the configuration
RuleArgs(rule, sg) ==
    IF Truthy(rule.src_group)
    THEN [src_group |-> sg.id, ip_protocol |-> NoVal, from_port |-> NoVal,
          to_port |-> NoVal, cidr_ip |-> NoVal]
    ELSE [src_group |-> 0, ip_protocol |-> rule.protocol,
          from_port |-> rule.from, to_port |-> rule.to, cidr_ip |-> rule.cidr]

\* for rule in group.get('rules', []): try: sg.add_rule(...) except: print(e)
FwRule(t) ==
    /\ run[t].pc = "fw_rule"
    /\ run[t].ri < Len(Group(t).rules)
    /\ LET i == run[t].ri + 1
           rule == Group(t).rules[i]
           id == run[t].sg.id
       IN \E ok \in BOOLEAN :
            /\ Issue(t, "add_rule", "firewall", ToString(i), ok)
            /\ security_groups' =
                  IF ok THEN [security_groups EXCEPT
                                ![id].rules = Append(@, RuleArgs(rule, run[t].sg))]
                  ELSE security_groups
            /\ Set(t, [run[t] EXCEPT !.pc = Swallow(ok, "fw_rule"), !.ri = i])
    /\ UNCHANGED <<keypairs, default_network, floating_ips, instances,
                   base_app, events>>

\* (mutant) return sg sits after the loop over the groups
AfterGroupNext(gi, n) == "fw_group"

\* return sg sits inside the loop over the groups: after the rules of group
\* gi of n the function returns, whatever gi and n
AfterGroup(gi, n) == "plan"

\* return sg
FwReturn(t) ==
    /\ run[t].pc = "fw_rule"
    /\ run[t].ri >= Len(Group(t).rules)
    /\ Set(t, [run[t] EXCEPT !.pc = AfterGroup(run[t].gi, Len(run[t].cfg.firewall))])
    /\ UNCHANGED <<provider, base_app, events, calls>>

-----------------------------------------------------------------------------
(* _get_cb_launch_config and the launch of the instance. *)

\* int(...) of a size given in the configuration
ParseInt(x) == CASE x = "50" -> 50 [] x = "100" -> 100 [] OTHER -> 0

\* cloudlaunch_config.get("rootStorageType", "instance")
RootStorageType(cfg) ==
    IF cfg.rootStorageType = NoVal THEN DefaultRootStorageType
    ELSE cfg.rootStorageType

\* (mutant) the configured size is not looked at
RootStorageSizeDefault(cfg) == DefaultRootStorageSize

\* int(cloudlaunch_config.get("rootStorageSize", 20))
RootStorageSize(cfg) ==
    IF cfg.rootStorageSize = NoVal THEN DefaultRootStorageSize
    ELSE ParseInt(cfg.rootStorageSize)

\* cloudlaunch_config.get('instanceType', cloud_version_config.default_instance_type)
InstanceType(cfg) ==
    IF cfg.instanceType = NoVal THEN VersionInstanceType ELSE cfg.instanceType

\* _get_cb_launch_config: a launch config with one root volume, or None
GetCbLaunchConfig(t) ==
    /\ run[t].pc = "plan"
    /\ IF RootStorageType(run[t].cfg) = "volume"
       THEN \E ok \in BOOLEAN :
            /\ Issue(t, "instances.create_launch_config", "plan", NoVal, ok)
            /\ Set(t, [run[t] EXCEPT
                    !.pc = Propagate(ok, "emit_launch"),
                    !.lc = IF ok
                           THEN [present |-> TRUE,
                                 devices |-> << [source |-> run[t].img,
                                                 size |-> RootStorageSize(run[t].cfg),
                                                 is_root |-> TRUE] >>]
                           ELSE NoLc])
       ELSE /\ Set(t, [run[t] EXCEPT !.pc = "emit_launch", !.lc = NoLc])
            /\ UNCHANGED calls
    /\ UNCHANGED <<provider, base_app, events>>

EmitLaunch(t) ==
    /\ run[t].pc = "emit_launch"
    /\ UpdateState(t, "Launching an instance")
    /\ Set(t, [run[t] EXCEPT !.pc = "create"])
    /\ UNCHANGED <<provider, base_app, calls>>

InstancesCreate(t) ==
    /\ run[t].pc = "create"
    /\ LET id == Len(instances) + 1
       IN \E ok \in BOOLEAN :
            /\ Issue(t, "instances.create", "launch", InstanceType(run[t].cfg), ok)
            /\ instances' =
                  IF ok THEN Append(instances,
                                    [id |-> id, public_ips |-> <<>>,
                                     image |-> run[t].img,
                                     instance_type |-> InstanceType(run[t].cfg),
                                     subnet |-> run[t].cfg.subnet,
                                     zone |-> run[t].cfg.placementZone,
                                     key_pair |-> run[t].kp.id,
                                     security_groups |-> <<run[t].sg.id>>,
                                     launch_config |-> run[t].lc])
                  ELSE instances
            /\ Set(t, [run[t] EXCEPT
                    !.pc = Propagate(ok, "emit_wait"),
                    !.inst = IF ok THEN [id |-> id, public_ips |-> <<>>]
                             ELSE NoInst])
    /\ UNCHANGED <<keypairs, security_groups, default_network, floating_ips,
                   base_app, events>>

EmitWait(t) ==
    /\ run[t].pc = "emit_wait"
    /\ UpdateState(t, "Waiting for instance")
    /\ Set(t, [run[t] EXCEPT !.pc = "wait"])
    /\ UNCHANGED <<provider, base_app, calls>>

\* the addresses a provider gives an instance of its own accord
InstanceAddr(i) == "198.51.100." \o ToString(i)

\* the public IPs an instance may come up with
AssignedIps == { [i \in 1..n |-> InstanceAddr(i)] : n \in 0..MaxPublicIps }

\* (mutant) the static IP is assigned whether configured or not
AfterReadyAlways(static_ip) == "emit_static"

\* static_ip = cloudlaunch_config.get('staticIP'); if static_ip: ...
AfterReady(static_ip) == IF Truthy(static_ip) THEN "emit_static" ELSE "results"

WaitTillReady(t) ==
    /\ run[t].pc = "wait"
    /\ LET id == run[t].inst.id
       IN \E ok \in BOOLEAN, ips \in AssignedIps :
            /\ ok \/ ips = <<>>
            /\ Issue(t, "wait_till_ready", "wait", NoVal, ok)
            /\ instances' = IF ok THEN [instances EXCEPT ![id].public_ips = ips]
                            ELSE instances
            /\ Set(t, [run[t] EXCEPT
                    !.pc = Propagate(ok, AfterReady(run[t].cfg.staticIP)),
                    !.static_ip = IF ok THEN run[t].cfg.staticIP ELSE NoVal,
                    !.inst = IF ok THEN [@ EXCEPT !.public_ips = ips] ELSE @])
    /\ UNCHANGED <<keypairs, security_groups, default_network, floating_ips,
                   base_app, events>>

EmitStatic(t) ==
    /\ run[t].pc = "emit_static"
    /\ UpdateState(t, "Assigning requested floating IP")
    /\ Set(t, [run[t] EXCEPT !.pc = "add_static"])
    /\ UNCHANGED <<provider, base_app, calls>>

\* the provider's side of inst.add_floating_ip(ip): the floating IP of that
\* address is in use, and the instance has the address
MarkInUse(fips, ip) ==
    [i \in 1..Len(fips) |->
        IF fips[i].public_ip = ip /\ Truthy(ip)
        THEN [fips[i] EXCEPT !.in_use = TRUE] ELSE fips[i]]

GiveAddress(insts, id, ip) ==
    IF Truthy(ip) THEN [insts EXCEPT ![id].public_ips = Append(@, ip)] ELSE insts

\* inst.add_floating_ip(static_ip)
AddStaticIp(t) ==
    /\ run[t].pc = "add_static"
    /\ \E ok \in BOOLEAN :
        /\ Issue(t, "add_floating_ip", "static_ip", run[t].static_ip, ok)
        /\ floating_ips' = IF ok THEN MarkInUse(floating_ips, run[t].static_ip)
                           ELSE floating_ips
        /\ instances' = IF ok THEN GiveAddress(instances, run[t].inst.id,
                                               run[t].static_ip)
                        ELSE instances
        /\ Set(t, [run[t] EXCEPT !.pc = Propagate(ok, "refresh")])
    /\ UNCHANGED <<keypairs, security_groups, default_network, base_app, events>>

\* inst.refresh()
Refresh(t) ==
    /\ run[t].pc = "refresh"
    /\ \E ok \in BOOLEAN :
        /\ Issue(t, "refresh", "static_ip", NoVal, ok)
        /\ Set(t, [run[t] EXCEPT
                !.pc = Propagate(ok, "results"),
                !.inst = IF ok
                         THEN [@ EXCEPT !.public_ips =
                                          instances[run[t].inst.id].public_ips]
                         ELSE @])
    /\ UNCHANGED <<provider, base_app, events>>

\* results['keyPair'], ['securityGroup'], ['instance']; sg.id of a None sg
\* raises AttributeError
BuildResults(t) ==
    /\ run[t].pc = "results"
    /\ IF run[t].sg = NoSg
       THEN Set(t, [run[t] EXCEPT !.pc = "failed"])
       ELSE Set(t, [run[t] EXCEPT
                !.pc = "attach",
                !.results = [@ EXCEPT
                    !.keyPair = run[t].kp,
                    !.securityGroup = run[t].sg,
                    !.instance = [id |-> run[t].inst.id]]])
    /\ UNCHANGED <<provider, base_app, events, calls>>

-----------------------------------------------------------------------------
(* attach_public_ip. *)

\* (mutant) a floating IP is looked for whatever the instance has
AttachBranchAlwaysScan(public_ips) == "floating_ips"

\* if not inst.public_ips: ... elif len(inst.public_ips) > 0: ... else: ...
AttachBranch(public_ips) ==
    IF public_ips = <<>> THEN "floating_ips"
    ELSE IF Len(public_ips) > 0 THEN "first" ELSE "none"

AttachPublicIp(t) ==
    /\ run[t].pc = "attach"
    /\ LET ips == run[t].inst.public_ips
           branch == AttachBranch(ips)
       IN Set(t, [run[t] EXCEPT
                !.fips_before = floating_ips,
                !.pc = IF branch = "floating_ips" THEN "floating_ips"
                       ELSE "emit_created",
                !.results = IF branch = "floating_ips" THEN @
                            ELSE [@ EXCEPT !.publicIP =
                                    IF branch = "first" THEN ips[1] ELSE NoVal]])
    /\ UNCHANGED <<provider, base_app, events, calls>>

\* fip = None; for ip in fips: if not ip.in_use(): fip = ip
\* (the index of the floating IP the loop ends with, 0 for None)
RECURSIVE Scan(_, _, _)
Scan(fips, i, fip) ==
    IF i > Len(fips) THEN fip
    ELSE Scan(fips, i + 1, IF ~fips[i].in_use THEN i ELSE fip)

\* (mutant) the scan stops at the first floating IP not in use
FirstAvailable(fips) ==
    LET free == { i \in 1..Len(fips) : ~fips[i].in_use }
    IN IF free = {} THEN 0 ELSE CHOOSE i \in free : \A k \in free : i <= k

\* (mutant) the scan takes the last floating IP, in use or not
LastOfAll(fips) == Len(fips)

LastAvailable(fips) == Scan(fips, 1, 0)

\* fips = provider.network.floating_ips() and the scan for one not in use
FloatingIps(t) ==
    /\ run[t].pc = "floating_ips"
    /\ LET i == LastAvailable(floating_ips)
       IN \E ok \in BOOLEAN :
            /\ Issue(t, "network.floating_ips", "public_ip", NoVal, ok)
            /\ Set(t, [run[t] EXCEPT
                    !.pc = Propagate(ok, IF i # 0 THEN "add_fip" ELSE "create_fip"),
                    !.fips = IF ok THEN floating_ips ELSE @,
                    !.fip = IF ok /\ i # 0
                            THEN [id |-> floating_ips[i].id,
                                  public_ip |-> floating_ips[i].public_ip]
                            ELSE NoFip])
    /\ UNCHANGED <<provider, base_app, events>>

\* the address of the i-th floating IP of the account
FipAddr(i) == "203.0.113." \o ToString(i)

\* what provider.network.create_floating_ip() can do: hand out a floating IP
\* with an address, hand out one that has no address (yet), or raise
CreateOutcomes == {"address", "no address", "raise"}

CreateFloatingIp(t) ==
    /\ run[t].pc = "create_fip"
    /\ LET id == Len(floating_ips) + 1
       IN \E out \in CreateOutcomes :
            LET ok == out # "raise"
                ip == IF out = "address" THEN FipAddr(id) ELSE NoVal
            IN /\ Issue(t, "network.create_floating_ip", "public_ip", NoVal, ok)
               /\ floating_ips' =
                     IF ok THEN Append(floating_ips,
                                       [id |-> id, public_ip |-> ip,
                                        in_use |-> FALSE])
                     ELSE floating_ips
               /\ Set(t, [run[t] EXCEPT
                       !.pc = Propagate(ok, "add_fip"),
                       !.fip = IF ok THEN [id |-> id, public_ip |-> ip]
                               ELSE NoFip])
    /\ UNCHANGED <<keypairs, security_groups, default_network, instances,
                   base_app, events>>

\* inst.add_floating_ip(fip.public_ip); return fip.public_ip
AddFloatingIp(t) ==
    /\ run[t].pc = "add_fip"
    /\ LET ip == run[t].fip.public_ip
       IN \E ok \in BOOLEAN :
            /\ Issue(t, "add_floating_ip", "public_ip", ip, ok)
            /\ floating_ips' = IF ok THEN MarkInUse(floating_ips, ip)
                               ELSE floating_ips
            /\ instances' = IF ok THEN GiveAddress(instances, run[t].inst.id, ip)
                            ELSE instances
            /\ Set(t, [run[t] EXCEPT
                    !.pc = Propagate(ok, "emit_created"),
                    !.results = IF ok THEN [@ EXCEPT !.publicIP = ip] ELSE @])
    /\ UNCHANGED <<keypairs, security_groups, default_network, base_app, events>>

-----------------------------------------------------------------------------
(* The end of launch_app, and wait_for_http. *)

EmitCreated(t) ==
    /\ run[t].pc = "emit_created"
    /\ UpdateState(t, "Instance creation successful")
    /\ Set(t, [run[t] EXCEPT !.pc = "app_url"])
    /\ UNCHANGED <<provider, base_app, calls>>

\* 'http://%s/' % results['publicIP']
FormatUrl(ip) == "http://" \o ip \o "/"

\* (mutant) the URL is formatted without looking at the public IP
ApplicationURLAlways(base, publicIP) == IF base THEN FormatUrl(publicIP) ELSE Unset

\* results['applicationURL'] as launch_app sets it (or leaves it unset)
ApplicationURL(base, publicIP) ==
    IF base
    THEN IF Truthy(publicIP) THEN FormatUrl(publicIP) ELSE "N/A"
    ELSE Unset

\* whether launch_app goes on to wait_for_http
WaitsForHttp(base, publicIP) == base /\ Truthy(publicIP)

\* if self.base_app: if results['publicIP']: ... else: ...
SetApplicationUrl(t) ==
    /\ run[t].pc = "app_url"
    /\ LET ip == run[t].results.publicIP
           waits == WaitsForHttp(base_app, ip)
       IN Set(t, [run[t] EXCEPT
                !.results = [@ EXCEPT !.applicationURL = ApplicationURL(base_app, ip)],
                !.pc = IF waits THEN "emit_http" ELSE "return"])
    /\ UNCHANGED <<provider, base_app, events, calls>>

\* the progress event, and the call wait_for_http(url): count = 0
EmitHttp(t) ==
    /\ run[t].pc = "emit_http"
    /\ UpdateState(t, "Waiting for application to become ready")
    /\ Set(t, [run[t] EXCEPT !.pc = "http",
                             !.url = run[t].results.applicationURL,
                             !.count = 0,
                             !.max_retries = MaxRetries])
    /\ UNCHANGED <<provider, base_app, calls>>

\* while count < max_retries: time.sleep(poll_interval)
HttpSleep(t) ==
    /\ run[t].pc = "http"
    /\ run[t].count < run[t].max_retries
    /\ Set(t, [run[t] EXCEPT !.pc = "head", !.sleeps = @ + 1])
    /\ UNCHANGED <<provider, base_app, events, calls>>

\* what requests.head(url) can do: respond with a status, or fail to connect
StatusCodes == {200, 301, 401, 403, 404, 500}

Responses ==
    { [kind |-> "response", status_code |-> c] : c \in StatusCodes }
    \cup { [kind |-> "ConnectionError", status_code |-> 0] }

\* r.raise_for_status() raises HTTPError for a 4xx or 5xx status
RaisesHTTPError(resp) ==
    resp.kind = "response" /\ resp.status_code >= 400 /\ resp.status_code < 600

\* (mutant) 401 and 403 are not taken for a sign of life
AfterHeadNoAuth(resp) ==
    IF resp.kind = "ConnectionError" THEN "retry"
    ELSE IF RaisesHTTPError(resp) THEN "retry" ELSE "return"

\* (mutant) an HTTPError other than 401/403 is raised again
AfterHeadReraise(resp) ==
    IF resp.kind = "ConnectionError" THEN "retry"
    ELSE IF RaisesHTTPError(resp)
         THEN IF resp.status_code \in {401, 403} THEN "return" ELSE "raise"
         ELSE "return"

\* (mutant) ConnectionError has no handler
AfterHeadConnRaises(resp) ==
    IF resp.kind = "ConnectionError" THEN "raise"
    ELSE IF RaisesHTTPError(resp)
         THEN IF resp.status_code \in {401, 403} THEN "return" ELSE "retry"
         ELSE "return"

\* the body of the loop after the request: "return", "retry" (count += 1), or
\* "raise" for an exception no handler catches (none for these responses)
AfterHead(resp) ==
    IF resp.kind = "ConnectionError" THEN "retry"
    ELSE IF RaisesHTTPError(resp)
         THEN IF resp.status_code \in {401, 403} THEN "return" ELSE "retry"
         ELSE "return"

\* try: r = requests.head(url); r.raise_for_status(); return / except ...
HttpHead(t) ==
    /\ run[t].pc = "head"
    /\ \E resp \in Responses :
        LET after == AfterHead(resp)
        IN Set(t, [run[t] EXCEPT
                !.r = resp,
                !.probes = @ + 1,
                !.conn_errors = IF resp.kind = "ConnectionError" THEN @ + 1 ELSE @,
                !.count = IF after = "retry" THEN @ + 1 ELSE @,
                !.pc = CASE after = "return" -> "return"
                         [] after = "retry" -> "http"
                         [] OTHER -> "failed"])
    /\ UNCHANGED <<provider, base_app, events, calls>>

\* the loop ends with count = max_retries: wait_for_http returns None
HttpGiveUp(t) ==
    /\ run[t].pc = "http"
    /\ ~(run[t].count < run[t].max_retries)
    /\ Set(t, [run[t] EXCEPT !.pc = "return"])
    /\ UNCHANGED <<provider, base_app, events, calls>>

\* return {'cloudLaunch': results}: the caller has the results, and the
\* variables of wait_for_http are gone with its frame
Return(t) ==
    /\ run[t].pc = "return"
    /\ Set(t, [run[t] EXCEPT
            !.pc = "done", !.returned = TRUE,
            !.url = NoVal, !.count = 0, !.max_retries = 0, !.r = NoResponse,
            !.sleeps = 0, !.probes = 0, !.conn_errors = 0])
    /\ UNCHANGED <<provider, base_app, events, calls>>

-----------------------------------------------------------------------------
(* The initial states: one launch request against an account. *)

Numbered(names) == [i \in 1..Len(names) |-> [id |-> i, name |-> names[i]]]

\* the keypairs an account may hold before the launch
KeypairLists ==
    { Numbered(ns) : ns \in { <<>>, <<DefaultKpName>>, <<"mykey">>,
                              <<DefaultKpName, "mykey">> } }

\* the security groups an account may hold before the launch
SgLists ==
    { [i \in 1..Len(ns) |->
          [id |-> i, name |-> ns[i], description |-> "existing",
           network_id |-> "net-existing", rules |-> <<>>]] :
      ns \in SeqsUpTo({DefaultSgName, "MyApp"}, MaxSgs) }

\* the floating IPs an account may hold before the launch
FipLists ==
    UNION { { [i \in 1..n |-> [id |-> i, public_ip |-> FipAddr(i),
                               in_use |-> u[i]]] : u \in [1..n -> BOOLEAN] } :
            n \in 0..MaxFips }

\* a configuration with one firewall group of the default name and no rules
BaseConfig ==
    [EmptyConfig EXCEPT !.firewall =
        << [securityGroup |-> NoVal, description |-> NoVal, rules |-> <<>>] >>]

\* The configuration and the account vary one stage at a time: the keypair,
\* the firewall list, the security groups and network, the floating IPs, the
\* launch plan; the other stages start from BaseConfig and an empty account.
Requests ==
    { [cfg |-> [BaseConfig EXCEPT !.keyPair = k], kps |-> kps, sgs |-> <<>>,
       net |-> FALSE, fips |-> <<>>] :
        k \in {NoVal, "mykey"}, kps \in KeypairLists }
    \cup
    { [cfg |-> [BaseConfig EXCEPT !.firewall = fw], kps |-> <<>>, sgs |-> <<>>,
       net |-> FALSE, fips |-> <<>>] :
        fw \in Firewalls }
    \cup
    { [cfg |-> [BaseConfig EXCEPT !.firewall = <<g>>, !.network = n],
       kps |-> <<>>, sgs |-> sgs, net |-> net, fips |-> <<>>] :
        g \in { h \in FirewallGroups : h.rules = <<>> },
        n \in {NoVal, "net-configured"}, sgs \in SgLists, net \in BOOLEAN }
    \cup
    { [cfg |-> [BaseConfig EXCEPT !.staticIP = ip], kps |-> <<>>, sgs |-> <<>>,
       net |-> FALSE, fips |-> fips] :
        ip \in {NoVal, FipAddr(1)}, fips \in FipLists }
    \cup
    { [cfg |-> [BaseConfig EXCEPT !.rootStorageType = ty, !.rootStorageSize = sz,
                                  !.customImageID = im, !.instanceType = it,
                                  !.placementZone = zn, !.subnet = sn],
       kps |-> <<>>, sgs |-> <<>>, net |-> FALSE, fips |-> <<>>] :
        ty \in {NoVal, "instance", "volume"}, sz \in {NoVal, "50"},
        im \in {NoVal, "image-custom"}, it \in {NoVal, "m1.large"},
        zn \in {NoVal, "zone-a"}, sn \in {NoVal, "subnet-1"} }

\* BaseVMAppPlugin() sets base_app; invocation 1 has a request, 2 has none
Init ==
    \E q \in Requests :
        /\ keypairs = q.kps
        /\ security_groups = q.sgs
        /\ default_network = q.net
        /\ floating_ips = q.fips
        /\ instances = <<>>
        /\ base_app = TRUE
        /\ run = [t \in Runs |-> IF t = 1 THEN NewRun("idle", q.cfg)
                                 ELSE NewRun("off", EmptyConfig)]
        /\ events = [t \in Runs |-> <<>>]
        /\ calls = [t \in Runs |-> <<>>]

Next ==
    \E t \in Runs :
        \/ LaunchApp(t)
        \/ EmitKeypair(t)
        \/ KpFind(t)
        \/ KpCreate(t)
        \/ EmitFirewall(t)
        \/ FwGroup(t)
        \/ SgFind(t)
        \/ GetNetworkId(t)
        \/ SgCreate(t)
        \/ FwRule(t)
        \/ FwReturn(t)
        \/ GetCbLaunchConfig(t)
        \/ EmitLaunch(t)
        \/ InstancesCreate(t)
        \/ EmitWait(t)
        \/ WaitTillReady(t)
        \/ EmitStatic(t)
        \/ AddStaticIp(t)
        \/ Refresh(t)
        \/ BuildResults(t)
        \/ AttachPublicIp(t)
        \/ FloatingIps(t)
        \/ CreateFloatingIp(t)
        \/ AddFloatingIp(t)
        \/ EmitCreated(t)
        \/ SetApplicationUrl(t)
        \/ EmitHttp(t)
        \/ HttpSleep(t)
        \/ HttpHead(t)
        \/ HttpGiveUp(t)
        \/ Return(t)

Spec == Init /\ [][Next]_vars

-----------------------------------------------------------------------------
(* Two launches against one account. *)

\* a configuration that takes launch_app through every optional stage: a
\* firewall group with a rule, a root volume, a static IP
FullConfig ==
    [BaseConfig EXCEPT
        !.firewall = << [securityGroup |-> "MyApp", description |-> NoVal,
                         rules |-> SubSeq(ExampleRules, 1, 1)] >>,
        !.rootStorageType = "volume",
        !.staticIP = FipAddr(1)]

\* the security group of the default name, there before the launches
DefaultSg == Numbered(<<DefaultSgName>>)

\* two requests that name the same keypair, and the account they meet: no
\* keypair yet, or the keypair; no floating IP, or one not in use
RequestsTwo ==
    { [cfg1 |-> c, cfg2 |-> BaseConfig, kps |-> kps, sgs |-> <<>>, fips |-> fips] :
        c \in {BaseConfig, FullConfig},
        kps \in { Numbered(ns) : ns \in { <<>>, <<DefaultKpName>> } },
        fips \in { fs \in FipLists : Len(fs) <= 1 /\ \A i \in 1..Len(fs) : ~fs[i].in_use } }

\* two requests at once: the keypair they name is not there yet, the default
\* security group is, and one floating IP is not in use
RequestsRace ==
    { [cfg1 |-> c, cfg2 |-> BaseConfig, kps |-> <<>>, sgs |-> DefaultSg, fips |-> fips] :
        c \in {BaseConfig, FullConfig},
        fips \in { fs \in FipLists : Len(fs) = 1 /\ ~fs[1].in_use } }

\* both invocations have a request
InitPair(requests) ==
    \E q \in requests :
        /\ keypairs = q.kps
        /\ security_groups =
              [i \in 1..Len(q.sgs) |->
                  [id |-> q.sgs[i].id, name |-> q.sgs[i].name,
                   description |-> "existing", network_id |-> "net-existing",
                   rules |-> <<>>]]
        /\ default_network = FALSE
        /\ floating_ips = q.fips
        /\ instances = <<>>
        /\ base_app = TRUE
        /\ run = [t \in Runs |-> NewRun("idle", IF t = 1 THEN q.cfg1 ELSE q.cfg2)]
        /\ events = [t \in Runs |-> <<>>]
        /\ calls = [t \in Runs |-> <<>>]

InitTwo == InitPair(RequestsTwo)

InitRace == InitPair(RequestsRace)

\* launch_app has returned or raised
Ended(t) == run[t].pc \in {"done", "failed"}

\* launch_app called for one request after the other: an invocation starts
\* when the ones before it have ended
NextSeq ==
    \E t \in Runs :
        \/ (\A u \in Runs : u < t => Ended(u)) /\ LaunchApp(t)
        \/ EmitKeypair(t)
        \/ KpFind(t)
        \/ KpCreate(t)
        \/ EmitFirewall(t)
        \/ FwGroup(t)
        \/ SgFind(t)
        \/ GetNetworkId(t)
        \/ SgCreate(t)
        \/ FwRule(t)
        \/ FwReturn(t)
        \/ GetCbLaunchConfig(t)
        \/ EmitLaunch(t)
        \/ InstancesCreate(t)
        \/ EmitWait(t)
        \/ WaitTillReady(t)
        \/ EmitStatic(t)
        \/ AddStaticIp(t)
        \/ Refresh(t)
        \/ BuildResults(t)
        \/ AttachPublicIp(t)
        \/ FloatingIps(t)
        \/ CreateFloatingIp(t)
        \/ AddFloatingIp(t)
        \/ EmitCreated(t)
        \/ SetApplicationUrl(t)
        \/ EmitHttp(t)
        \/ HttpSleep(t)
        \/ HttpHead(t)
        \/ HttpGiveUp(t)
        \/ Return(t)

\* two launches, one after the other
SpecSeq == InitTwo /\ [][NextSeq]_vars

\* the invocation is about to call the provider (or is between two calls of
\* one helper), or is not running
AtProvider(t) ==
    run[t].pc \in {"kp_find", "kp_create", "sg_find", "network", "sg_create",
                   "fw_rule", "plan", "create", "wait", "add_static", "refresh",
                   "floating_ips", "create_fip", "add_fip", "done", "failed",
                   "off"}

\* The steps of an invocation between two provider calls (the fetch of the
\* image, progress events, results, the HTTP wait) read and write only its own
\* variables, so they commute with every step of the other invocation. Such a
\* step is taken before any provider call, the lower invocation first: the
\* invocations interleave at their calls into the account.
Turn(t) ==
    \A u \in Runs \ {t} :
        AtProvider(u) \/ (~AtProvider(t) /\ t < u)

\* launch_app run by two workers at once
NextTwo ==
    \E t \in Runs :
        \/ Turn(t) /\ LaunchApp(t)
        \/ Turn(t) /\ EmitKeypair(t)
        \/ Turn(t) /\ KpFind(t)
        \/ Turn(t) /\ KpCreate(t)
        \/ Turn(t) /\ EmitFirewall(t)
        \/ Turn(t) /\ FwGroup(t)
        \/ Turn(t) /\ SgFind(t)
        \/ Turn(t) /\ GetNetworkId(t)
        \/ Turn(t) /\ SgCreate(t)
        \/ Turn(t) /\ FwRule(t)
        \/ Turn(t) /\ FwReturn(t)
        \/ Turn(t) /\ GetCbLaunchConfig(t)
        \/ Turn(t) /\ EmitLaunch(t)
        \/ Turn(t) /\ InstancesCreate(t)
        \/ Turn(t) /\ EmitWait(t)
        \/ Turn(t) /\ WaitTillReady(t)
        \/ Turn(t) /\ EmitStatic(t)
        \/ Turn(t) /\ AddStaticIp(t)
        \/ Turn(t) /\ Refresh(t)
        \/ Turn(t) /\ BuildResults(t)
        \/ Turn(t) /\ AttachPublicIp(t)
        \/ Turn(t) /\ FloatingIps(t)
        \/ Turn(t) /\ CreateFloatingIp(t)
        \/ Turn(t) /\ AddFloatingIp(t)
        \/ Turn(t) /\ EmitCreated(t)
        \/ Turn(t) /\ SetApplicationUrl(t)
        \/ Turn(t) /\ EmitHttp(t)
        \/ Turn(t) /\ HttpSleep(t)
        \/ Turn(t) /\ HttpHead(t)
        \/ Turn(t) /\ HttpGiveUp(t)
        \/ Turn(t) /\ Return(t)

\* two launches at once against one account
SpecTwo == InitRace /\ [][NextTwo]_vars

-----------------------------------------------------------------------------
(* Properties. *)

EvKeypair == "Retrieving or creating a keypair"
EvFirewall == "Applying firewall settings"
EvLaunch == "Launching an instance"
EvWait == "Waiting for instance"
EvStatic == "Assigning requested floating IP"
EvCreated == "Instance creation successful"
EvHttp == "Waiting for application to become ready"

\* the progress event that announces a stage of provider calls
StageEvent(stage) ==
    CASE stage = "keypair" -> EvKeypair
      [] stage = "firewall" -> EvFirewall
      [] stage = "launch" -> EvLaunch
      [] stage = "wait" -> EvWait
      [] stage = "static_ip" -> EvStatic
      [] stage = "public_ip" -> EvCreated
      [] OTHER -> ""

\* the place of a stage in launch_app
StageRank(stage) ==
    CASE stage = "start" -> 0
      [] stage = "keypair" -> 1
      [] stage = "firewall" -> 2
      [] stage = "plan" -> 3
      [] stage = "launch" -> 4
      [] stage = "wait" -> 5
      [] stage = "static_ip" -> 6
      [] stage = "public_ip" -> 7
      [] OTHER -> 8

IsPrefix(s, u) == Len(s) <= Len(u) /\ \A i \in 1..Len(s) : s[i] = u[i]

EventTexts(t) == [i \in 1..Len(events[t]) |-> events[t][i].action]

Empty(ip) == ip \in {NoVal, ""}

\* the events of a complete run, in order
ExpectedEvents(t) ==
    <<EvKeypair, EvFirewall, EvLaunch, EvWait>>
    \o (IF ~Empty(run[t].cfg.staticIP) THEN <<EvStatic>> ELSE <<>>)
    \o <<EvCreated>>
    \o (IF base_app /\ ~Empty(run[t].results.publicIP) THEN <<EvHttp>> ELSE <<>>)

\* the indices of the calls of a kind in a stage
CallsOf(t, call, stage) ==
    { i \in 1..Len(calls[t]) :
        calls[t][i].call = call /\ calls[t][i].stage = stage }

StagesInOrder(t) ==
    /\ IsPrefix(EventTexts(t), ExpectedEvents(t))
    /\ \A i \in 1..Len(events[t]) : events[t][i].state = "PROGRESSING"
    /\ \A i, j \in 1..Len(calls[t]) :
          i < j => StageRank(calls[t][i].stage) <= StageRank(calls[t][j].stage)
    /\ run[t].pc = "done" => EventTexts(t) = ExpectedEvents(t)
    /\ run[t].sleeps > 0 => LastEvent(t) = EvHttp

\* C1 as stated: the stages of launch_app run in order, and the progress
\* event of every stage, the allocation of the public IP included, is
\* emitted before that stage's provider calls are issued.
C1_EventBeforeEveryStage ==
    \A t \in Runs :
        /\ StagesInOrder(t)
        /\ \A i \in 1..Len(calls[t]) :
              StageEvent(calls[t][i].stage) # "" =>
                  calls[t][i].after = StageEvent(calls[t][i].stage)

\* C1 (amended): the stages of launch_app run in the order keypair, firewall,
\* launch, wait, static IP (only when configured), public IP, HTTP wait (only
\* for the base app with a public IP), each with one PROGRESSING event; the
\* event of every stage but the public-IP one is the last event emitted before
\* each of that stage's provider calls, while the calls of attach_public_ip
\* are issued before "Instance creation successful" is emitted.
C1_StageOrder ==
    \A t \in Runs :
        /\ StagesInOrder(t)
        /\ \A i \in 1..Len(calls[t]) :
              LET c == calls[t][i]
              IN /\ c.stage \in {"keypair", "firewall", "launch", "wait", "static_ip"}
                      => c.after = StageEvent(c.stage)
                 /\ c.stage = "public_ip" => c.after \in {EvWait, EvStatic}

\* a run that allocated a floating IP and went on to the HTTP wait and the end
C1_Witness ==
    /\ run[1].pc = "done"
    /\ Len(events[1]) = 6
    /\ CallsOf(1, "network.create_floating_ip", "public_ip") # {}

\* C2: in a result launch_app returns, applicationURL is "N/A" exactly when
\* publicIP is empty, and is "http://<publicIP>/" otherwise.
C2_ApplicationUrl ==
    \A t \in Runs :
        run[t].returned =>
            LET res == run[t].results
            IN /\ (res.applicationURL = "N/A") <=> Empty(res.publicIP)
               /\ ~Empty(res.publicIP) =>
                     res.applicationURL = "http://" \o res.publicIP \o "/"

\* a result without a public IP
C2_Witness ==
    /\ run[1].returned
    /\ run[1].results.publicIP = NoVal
    /\ run[1].results.applicationURL = "N/A"

\* the instance has no public IP, no floating IP was free and
\* create_floating_ip gave no address
NoIpToBeHad(t) ==
    /\ run[t].inst.id # 0
    /\ run[t].inst.public_ips = <<>>
    /\ \E i \in CallsOf(t, "network.create_floating_ip", "public_ip") :
          ~calls[t][i].ok \/ Empty(run[t].fip.public_ip)

\* C3 as stated: when the instance has no public IP and the provider cannot
\* allocate one, launch_app does not fail, and it returns applicationURL "N/A"
\* without the HTTP wait.
C3_NoIpStillCompletes ==
    \A t \in Runs :
        NoIpToBeHad(t) =>
            /\ run[t].pc # "failed"
            /\ run[t].pc = "done" =>
                  /\ run[t].returned
                  /\ run[t].results.applicationURL = "N/A"
                  /\ run[t].sleeps = 0
                  /\ EvHttp \notin { events[t][i].action : i \in 1..Len(events[t]) }

\* attach_public_ip has returned
Attached(t) == run[t].results.publicIP # Unset

\* C4: for an instance with public IPs attach_public_ip returns the first,
\* issues no provider call and leaves the floating IPs as they were.
C4_ExistingIpNoMutation ==
    \A t \in Runs :
        (Attached(t) /\ run[t].inst.public_ips # <<>>) =>
            /\ run[t].results.publicIP = run[t].inst.public_ips[1]
            /\ \A i \in 1..Len(calls[t]) : calls[t][i].stage # "public_ip"
            /\ floating_ips = run[t].fips_before

\* attach_public_ip has returned for an instance with two public IPs
C4_Witness ==
    /\ Attached(1)
    /\ Len(run[1].inst.public_ips) = 2
    /\ \E i \in 1..Len(run[1].fips_before) : ~run[1].fips_before[i].in_use

Max(S) == CHOOSE x \in S : \A y \in S : y <= x

\* C5: for an instance without public IP attach_public_ip scans the floating
\* IPs once; with some not in use it attaches the last of them, returns its
\* address and allocates nothing; with none it allocates one, attaches it
\* and returns its address; either way it calls add_floating_ip once.
C5_ReuseLastOrAllocate ==
    \A t \in Runs :
        (Attached(t) /\ run[t].inst.public_ips = <<>>) =>
            LET before == run[t].fips_before
                free == { i \in 1..Len(before) : ~before[i].in_use }
                adds == CallsOf(t, "add_floating_ip", "public_ip")
                creates == CallsOf(t, "network.create_floating_ip", "public_ip")
                ip == run[t].results.publicIP
            IN /\ Cardinality(CallsOf(t, "network.floating_ips", "public_ip")) = 1
               /\ Cardinality(adds) = 1
               /\ \A i \in adds : calls[t][i].arg = ip
               /\ free # {} =>
                     /\ ip = before[Max(free)].public_ip
                     /\ creates = {}
                     /\ Len(floating_ips) = Len(before)
                     /\ floating_ips[Max(free)].in_use
                     /\ \A i \in 1..Len(before) :
                           i # Max(free) => floating_ips[i] = before[i]
               /\ free = {} =>
                     /\ Cardinality(creates) = 1
                     /\ Len(floating_ips) = Len(before) + 1
                     /\ ip = floating_ips[Len(floating_ips)].public_ip
                     /\ ~Empty(ip) => floating_ips[Len(floating_ips)].in_use
                     /\ \A i \in 1..Len(before) : floating_ips[i] = before[i]

\* attach_public_ip has returned after a scan that met two floating IPs not
\* in use
C5_Witness ==
    /\ Attached(1)
    /\ run[1].inst.public_ips = <<>>
    /\ Cardinality({ i \in 1..Len(run[1].fips_before) :
                        ~run[1].fips_before[i].in_use }) >= 2

\* a response wait_for_http takes for a sign of life
Positive(resp) ==
    /\ resp.kind = "response"
    /\ \/ (resp.status_code >= 200 /\ resp.status_code < 300)
       \/ resp.status_code \in {401, 403}

\* an HTTP error status other than 401 and 403
OtherError(resp) ==
    /\ resp.kind = "response"
    /\ resp.status_code >= 400
    /\ resp.status_code \notin {401, 403}

\* C6: wait_for_http returns right after the first cycle whose response is
\* 2xx, 401 or 403, and with connection failures only it makes exactly
\* max_retries cycles of sleep and request before it ends.
C6_HttpCycles ==
    \A t \in Runs :
        /\ run[t].probes <= run[t].sleeps
        /\ run[t].sleeps <= run[t].max_retries
        /\ Positive(run[t].r) =>
              /\ run[t].pc = "return"
              /\ run[t].sleeps = run[t].probes
              /\ run[t].count = run[t].probes - 1
        /\ (run[t].pc = "return" /\ run[t].probes > 0
                /\ run[t].conn_errors = run[t].probes) =>
              /\ run[t].probes = run[t].max_retries
              /\ run[t].sleeps = run[t].max_retries

\* wait_for_http has ended after nothing but connection failures
C6_Witness ==
    /\ run[1].pc = "return"
    /\ run[1].probes > 1
    /\ run[1].conn_errors = run[1].probes

\* C7 as stated: a response with an HTTP error status other than 401/403
\* ends the polling with an error.
C7_OtherErrorPropagates ==
    \A t \in Runs : OtherError(run[t].r) => run[t].pc = "failed"

\* C7 (amended): a response with an HTTP error status other than 401/403 is
\* caught and counted as a failed attempt: count goes up by one and the
\* polling goes on until max_retries attempts have failed.
C7_OtherErrorCounted ==
    \A t \in Runs :
        OtherError(run[t].r) =>
            /\ run[t].pc \in {"http", "head", "return"}
            /\ run[t].count = run[t].probes
            /\ run[t].pc = "return" => run[t].count = run[t].max_retries
            /\ run[t].pc = "head" => run[t].sleeps = run[t].probes + 1

\* after a 404 or a 500 the loop has slept again and is about to ask again
C7_Witness ==
    /\ OtherError(run[1].r)
    /\ run[1].pc = "head"
    /\ run[1].sleeps = run[1].probes + 1

InWaitForHttp(t) == run[t].pc \in {"http", "head"}

\* a request that failed: no connection, or an error status other than 401/403
FailedAttempt(resp) == resp.kind = "ConnectionError" \/ OtherError(resp)

\* C8: wait_for_http never fails: whatever the responses, it makes at most
\* max_retries requests, can always go on or return, and after an exhausted
\* budget launch_app is at its return statement, with the URL of the public
\* IP in the result, and nothing keeps it from returning.
C8_HttpNeverFails ==
    \A t \in Runs :
        /\ run[t].probes <= run[t].max_retries
        /\ run[t].sleeps > 0 => run[t].pc # "failed"
        /\ InWaitForHttp(t) =>
              ENABLED (HttpSleep(t) \/ HttpHead(t) \/ HttpGiveUp(t))
        /\ (run[t].pc = "return" /\ FailedAttempt(run[t].r)) =>
              /\ run[t].probes = run[t].max_retries
              /\ ENABLED Return(t)
              /\ ~Empty(run[t].results.publicIP)
              /\ run[t].results.applicationURL =
                    "http://" \o run[t].results.publicIP \o "/"
        /\ (run[t].pc = "done" /\ EvHttp \in { events[t][i].action :
                                                  i \in 1..Len(events[t]) }) =>
              /\ run[t].returned
              /\ run[t].results.applicationURL =
                    "http://" \o run[t].results.publicIP \o "/"

\* launch_app is about to return after a budget spent on connection failures
\* and error statuses
C8_Witness ==
    /\ run[1].pc = "return"
    /\ run[1].probes = run[1].max_retries
    /\ OtherError(run[1].r)
    /\ run[1].conn_errors > 0

\* the arguments of the add_rule calls so far, in order
RulesTried(t) ==
    LET tried == SelectSeq(calls[t], LAMBDA c : c.call = "add_rule")
    IN [i \in 1..Len(tried) |-> tried[i].arg]

\* apply_app_firewall_settings has returned
FirewallApplied(t) ==
    \E i \in 1..Len(calls[t]) : StageRank(calls[t][i].stage) > 2

\* C9: a failing add_rule is swallowed: the rules of the group are all tried,
\* in order, the group is returned and launch_app goes on; a failing lookup
\* or creation of the group (or of its network) ends launch_app.
C9_RuleFailureSwallowed ==
    \A t \in Runs :
        /\ \A i \in 1..Len(calls[t]) :
              LET c == calls[t][i]
              IN /\ (c.call = "add_rule" /\ ~c.ok) =>
                        ~(run[t].pc = "failed" /\ i = Len(calls[t]))
                 /\ (c.stage = "firewall" /\ c.call # "add_rule" /\ ~c.ok) =>
                        (run[t].pc = "failed" /\ i = Len(calls[t]))
        /\ run[t].gi > 0 =>
              /\ Len(RulesTried(t)) <= Len(Group(t).rules)
              /\ \A i \in 1..Len(RulesTried(t)) : RulesTried(t)[i] = ToString(i)
        /\ (FirewallApplied(t) /\ run[t].gi > 0) =>
              /\ Len(RulesTried(t)) = Len(run[t].cfg.firewall[1].rules)
              /\ run[t].sg.id # 0
              /\ run[t].sg.name = (IF Empty(run[t].cfg.firewall[1].securityGroup)
                                   THEN "CloudLaunchDefault"
                                   ELSE run[t].cfg.firewall[1].securityGroup)

\* launch_app is done although the first of two rules could not be added
C9_Witness ==
    /\ run[1].pc = "done"
    /\ \E i \in CallsOf(1, "add_rule", "firewall") :
          /\ ~calls[1][i].ok
          /\ \E j \in CallsOf(1, "add_rule", "firewall") : j > i
    /\ CallsOf(1, "instances.create", "launch") # {}

\* C10: a provider call failing in the keypair stage or in the launch of the
\* instance ends launch_app at once: it is the last call, nothing is
\* returned, and the last progress event is that of the stage.
C10_FailureNamesStage ==
    \A t \in Runs :
        \A i \in 1..Len(calls[t]) :
            LET c == calls[t][i]
            IN (c.call \in {"key_pairs.find", "key_pairs.create",
                            "instances.create", "wait_till_ready"} /\ ~c.ok) =>
                  /\ run[t].pc = "failed"
                  /\ i = Len(calls[t])
                  /\ ~run[t].returned
                  /\ run[t].results = NoResults
                  /\ LastEvent(t) = StageEvent(c.stage)

\* launch_app has failed in wait_till_ready
C10_Witness ==
    /\ run[1].pc = "failed"
    /\ Last(calls[1]).call = "wait_till_ready"
    /\ LastEvent(1) = EvWait

\* every provider call of the invocation so far has succeeded
AllCallsOk(t) == \A i \in 1..Len(calls[t]) : calls[t][i].ok

\* C11 as stated: with optional fields of the configuration absent and every
\* provider call succeeding, launch_app falls back to the defaults, raises
\* no error, and the result it returns has a security group, also for a
\* configuration without firewall entries.
C11_DefaultsNeverFail ==
    \A t \in Runs :
        AllCallsOk(t) =>
            /\ run[t].pc # "failed"
            /\ \A i \in CallsOf(t, "key_pairs.find", "keypair") :
                  Empty(run[t].cfg.keyPair) => calls[t][i].arg = "cloudlaunch_key_pair"
            /\ run[t].returned => run[t].results.securityGroup.id # 0

\* _get_or_create_kp has returned a keypair to invocation t
Resolved(t) == run[t].kp.id # 0

\* the successful calls of a kind by invocation t
OkCalls(t, call) ==
    { i \in 1..Len(calls[t]) : calls[t][i].call = call /\ calls[t][i].ok }

\* C12: of two calls of _get_or_create_kp with one name, one after the other,
\* both return the same keypair, the first creates at most one, the second
\* creates none, and the account holds one keypair of the name.
C12_KpIdempotent ==
    (Resolved(1) /\ Resolved(2) /\ KpName(run[1].cfg) = KpName(run[2].cfg)) =>
        /\ run[1].kp.id = run[2].kp.id
        /\ run[1].kp.name = run[2].kp.name
        /\ Cardinality(CallsOf(1, "key_pairs.create", "keypair")) <= 1
        /\ CallsOf(2, "key_pairs.create", "keypair") = {}
        /\ Len(KpMatches(KpName(run[1].cfg))) = 1

\* the first call created the keypair and the second has returned it
C12_Witness ==
    /\ OkCalls(1, "key_pairs.create") # {}
    /\ Resolved(2)
    /\ run[2].kp.id = run[1].kp.id
    /\ run[2].pc = "emit_firewall"

\* C13: keypair get-or-create is not atomic: an invocation issues
\* key_pairs.create on the strength of its own earlier lookup alone (the call
\* right before it, which found nothing), with no lock and no second lookup,
\* so that the create can be issued while a keypair of the name exists; the
\* account comes to hold two keypairs of one name only by both invocations
\* creating it.
C13_CreateAfterOwnFind ==
    /\ \A t \in Runs :
          /\ run[t].pc = "kp_create" =>
                /\ ~Resolved(t)
                /\ Last(calls[t]).call = "key_pairs.find" /\ Last(calls[t]).ok
                /\ ENABLED KpCreate(t)
          /\ \A i \in CallsOf(t, "key_pairs.create", "keypair") :
                /\ i > 1
                /\ calls[t][i - 1].call = "key_pairs.find"
                /\ calls[t][i - 1].ok
                /\ calls[t][i - 1].arg = calls[t][i].arg
          /\ Cardinality(CallsOf(t, "key_pairs.create", "keypair")) <= 1
          /\ run[t].pc \in {"emit_firewall", "fw_group", "plan", "done"} => Resolved(t)
    /\ \A n \in {DefaultKpName, "mykey"} :
          Len(KpMatches(n)) >= 2 =>
              \A t \in Runs : \E i \in OkCalls(t, "key_pairs.create") :
                  calls[t][i].arg = n

\* both invocations looked the name up, found nothing, and created a keypair
\* of that name
C13_Witness ==
    /\ \A t \in Runs : OkCalls(t, "key_pairs.create") # {}
    /\ KpName(run[1].cfg) = KpName(run[2].cfg)
    /\ Len(KpMatches(KpName(run[1].cfg))) = 2
    /\ run[1].kp.id # run[2].kp.id

\* invocation t took its floating IP from the scan (it allocated none)
FromScan(t) ==
    /\ run[t].fip.id # 0
    /\ CallsOf(t, "network.create_floating_ip", "public_ip") = {}

\* C14: the acquisition of a floating IP is not exclusive: an invocation
\* attaches the floating IP that was the last one not in use in its own scan,
\* add_floating_ip follows the scan (or the allocation) directly, with no
\* lock and no second look, and can be issued when the floating IP has come
\* to be in use since.
C14_ScanNotExclusive ==
    \A t \in Runs :
        /\ FromScan(t) =>
              /\ run[t].fip.id \in 1..Len(run[t].fips)
              /\ ~run[t].fips[run[t].fip.id].in_use
              /\ \A i \in 1..Len(run[t].fips) :
                    i > run[t].fip.id => run[t].fips[i].in_use
              /\ run[t].fip.public_ip = run[t].fips[run[t].fip.id].public_ip
        /\ run[t].pc = "add_fip" => ENABLED AddFloatingIp(t)
        /\ \A i \in CallsOf(t, "add_floating_ip", "public_ip") :
              /\ i > 1
              /\ calls[t][i - 1].call \in {"network.floating_ips",
                                           "network.create_floating_ip"}
              /\ calls[t][i - 1].ok
              /\ calls[t][i].arg = run[t].fip.public_ip

\* both invocations met one floating IP not in use in their scans, the same
\* one, and both attached it to their own instance
C14_Witness ==
    /\ \A t \in Runs :
          /\ FromScan(t)
          /\ Cardinality({ i \in 1..Len(run[t].fips) : ~run[t].fips[i].in_use }) = 1
          /\ \E i \in OkCalls(t, "add_floating_ip") :
                /\ calls[t][i].stage = "public_ip"
                /\ calls[t][i].arg = run[t].fip.public_ip
          /\ Last(instances[run[t].inst.id].public_ips) = run[t].fip.public_ip
    /\ run[1].fip.id = run[2].fip.id
    /\ run[1].inst.id # run[2].inst.id

\* the invocations whose result carries private-key material
Surfaced ==
    { t \in Runs : run[t].returned /\ ~Empty(run[t].results.keyPair.material) }

\* the invocations whose resolve step created the keypair
Creators == { t \in Runs : OkCalls(t, "key_pairs.create") # {} }

\* C15 as stated: over launches, one after the other, that use one keypair
\* name, the material of a keypair created by one of them is surfaced exactly
\* once, in the result of the launch that created the keypair.
C15_MaterialExactlyOnce ==
    ((\A t \in Runs : Ended(t)) /\ Creators # {}) =>
        /\ Cardinality(Surfaced) = 1
        /\ Surfaced = Creators

\* the security group of the first firewall entry is the one returned and
\* attached to the instance
FirstGroupAttached(t) ==
    /\ run[t].sg.id # 0
    /\ run[t].sg.name = (IF Empty(run[t].cfg.firewall[1].securityGroup)
                         THEN "CloudLaunchDefault"
                         ELSE run[t].cfg.firewall[1].securityGroup)
    /\ run[t].inst.id # 0 =>
          instances[run[t].inst.id].security_groups = <<run[t].sg.id>>

\* C16 as stated: with two or more firewall entries the first entry's group
\* is the one returned and attached, and the later entries are computed too
\* (their groups looked up or created at the provider).
C16_LaterEntriesComputed ==
    \A t \in Runs :
        (FirewallApplied(t) /\ Len(run[t].cfg.firewall) >= 2) =>
            /\ FirstGroupAttached(t)
            /\ Cardinality(CallsOf(t, "security_groups.find", "firewall"))
                  = Len(run[t].cfg.firewall)

\* C16 (amended): with two or more firewall entries only the first is
\* processed: its group is looked up or created, its rules are added, and it
\* is returned and attached to the instance; for the later entries no group
\* is looked up or created and no rule is added.
C16_OnlyFirstEntry ==
    \A t \in Runs :
        /\ run[t].gi <= 1
        /\ Cardinality(CallsOf(t, "security_groups.find", "firewall")) <= 1
        /\ Cardinality(CallsOf(t, "security_groups.create", "firewall")) <= 1
        /\ \A i \in 1..Len(calls[t]) :
              calls[t][i].call \in {"security_groups.find", "security_groups.create"}
                  => calls[t][i].arg =
                        (IF Empty(run[t].cfg.firewall[1].securityGroup)
                         THEN "CloudLaunchDefault"
                         ELSE run[t].cfg.firewall[1].securityGroup)
        /\ run[t].cfg.firewall # <<>> =>
              Len(RulesTried(t)) <= Len(run[t].cfg.firewall[1].rules)
        /\ (FirewallApplied(t) /\ Len(run[t].cfg.firewall) >= 2) =>
              /\ FirstGroupAttached(t)
              /\ Len(RulesTried(t)) = Len(run[t].cfg.firewall[1].rules)

\* a launch with two firewall entries of different names has ended well
C16_Witness ==
    /\ run[1].pc = "done"
    /\ Len(run[1].cfg.firewall) >= 2
    /\ run[1].cfg.firewall[1].securityGroup # run[1].cfg.firewall[2].securityGroup
    /\ CallsOf(1, "security_groups.find", "firewall") # {}

\* _get_cb_launch_config has returned (the event of the launch follows it)
PlanBuilt(t) == \E i \in 1..Len(events[t]) : events[t][i].action = EvLaunch

\* C17: _get_cb_launch_config returns no device plan, and calls the provider
\* not at all, when rootStorageType is absent or "instance"; for "volume" it
\* returns a plan with one device, the root volume, sourced from the image,
\* of the configured size, or of size 20 when no size is configured.
C17_LaunchPlan ==
    \A t \in Runs :
        LET cfg == run[t].cfg
            lc == run[t].lc
        IN /\ cfg.rootStorageType \in {NoVal, "instance"} =>
                 /\ ~lc.present
                 /\ lc.devices = <<>>
                 /\ CallsOf(t, "instances.create_launch_config", "plan") = {}
           /\ (PlanBuilt(t) /\ cfg.rootStorageType = "volume") =>
                 /\ Cardinality(CallsOf(t, "instances.create_launch_config", "plan")) = 1
                 /\ lc.present
                 /\ Len(lc.devices) = 1
                 /\ lc.devices[1].is_root
                 /\ lc.devices[1].source = run[t].img
                 /\ cfg.rootStorageSize = NoVal => lc.devices[1].size = 20
                 /\ cfg.rootStorageSize = "50" => lc.devices[1].size = 50
           /\ run[t].inst.id # 0 => instances[run[t].inst.id].launch_config = lc

\* an instance launched with a root volume of the configured size
C17_Witness ==
    /\ run[1].inst.id # 0
    /\ run[1].cfg.rootStorageType = "volume"
    /\ run[1].cfg.rootStorageSize = "50"
    /\ run[1].lc.present
    /\ run[1].lc.devices[1].size = 50

\* the security groups of a name that were in the account before the launch
SgsBefore(name) ==
    SelectSeq(security_groups,
              LAMBDA g : g.name = name /\ g.description = "existing")

C19_StaticIpReported ==
    \A t \in Runs :
        (~Empty(run[t].cfg.staticIP) /\ Attached(t)) =>
            /\ \A i \in 1..Len(calls[t]) : calls[t][i].stage # "public_ip"
            /\ Cardinality(CallsOf(t, "add_floating_ip", "static_ip")) = 1
            /\ run[t].results.publicIP = run[t].cfg.staticIP

\* the calls after instances.create that the launch cannot do without
AfterCreateCalls ==
    {"wait_till_ready", "add_floating_ip", "refresh", "network.floating_ips",
     "network.create_floating_ip"}

\* a provider call of invocation t after instances.create has failed
FailedAfterCreate(t) ==
    \E i \in 1..Len(calls[t]) :
        calls[t][i].call \in AfterCreateCalls /\ ~calls[t][i].ok

\* what invocation t created is at the provider
CreatedRemains(t) ==
    /\ \A i \in OkCalls(t, "key_pairs.create") :
          \E k \in 1..Len(keypairs) :
              keypairs[k].id = run[t].kp.id /\ keypairs[k].name = calls[t][i].arg
    /\ \A i \in OkCalls(t, "security_groups.create") :
          \E k \in 1..Len(security_groups) :
              security_groups[k].id = run[t].sg.id
                  /\ security_groups[k].name = calls[t][i].arg
    /\ OkCalls(t, "instances.create") # {} =>
          \E k \in 1..Len(instances) : instances[k].id = run[t].inst.id
    /\ OkCalls(t, "network.create_floating_ip") # {} =>
          \E k \in 1..Len(floating_ips) : floating_ips[k].id = run[t].fip.id

\* no resource of the account is deleted or replaced in a step
OnlyGrows ==
    /\ Len(keypairs') >= Len(keypairs)
    /\ \A k \in 1..Len(keypairs) : keypairs'[k] = keypairs[k]
    /\ Len(security_groups') >= Len(security_groups)
    /\ \A k \in 1..Len(security_groups) :
          /\ security_groups'[k].id = security_groups[k].id
          /\ security_groups'[k].name = security_groups[k].name
          /\ IsPrefix(security_groups[k].rules, security_groups'[k].rules)
    /\ Len(instances') >= Len(instances)
    /\ \A k \in 1..Len(instances) :
          /\ instances'[k].id = instances[k].id
          /\ IsPrefix(instances[k].public_ips, instances'[k].public_ips)
    /\ Len(floating_ips') >= Len(floating_ips)
    /\ \A k \in 1..Len(floating_ips) :
          /\ floating_ips'[k].id = floating_ips[k].id
          /\ floating_ips'[k].public_ip = floating_ips[k].public_ip
          /\ floating_ips[k].in_use => floating_ips'[k].in_use
    /\ default_network => default_network'
    /\ \A t \in Runs : run[t].pc = "failed" => run'[t] = run[t]

\* C20: launch_app never cleans up: when a provider call after a successful
\* instances.create fails, launch_app has raised, it has returned nothing
\* (the material of a keypair it created included), and the instance, keypair,
\* security group and floating IP it created are at the provider; no step
\* removes a resource from the account, and a failed launch takes no
\* further step.
C20_NoCleanup ==
    /\ [](\A t \in Runs :
            /\ CreatedRemains(t)
            /\ FailedAfterCreate(t) =>
                  /\ run[t].pc = "failed"
                  /\ ~run[t].returned
                  /\ ~Last(calls[t]).ok
                  /\ run[t].inst.id # 0
                  /\ \E k \in 1..Len(instances) : instances[k].id = run[t].inst.id)
    /\ [][OnlyGrows]_vars

\* the launch failed attaching the floating IP it had allocated, after
\* creating the keypair, the security group and the instance
C20_Witness ==
    /\ run[1].pc = "failed"
    /\ Last(calls[1]).call = "add_floating_ip"
    /\ OkCalls(1, "network.create_floating_ip") # {}
    /\ OkCalls(1, "key_pairs.create") # {}
    /\ OkCalls(1, "security_groups.create") # {}
    /\ ~Empty(run[1].kp.material)
    /\ Len(floating_ips) = Len(run[1].fips_before) + 1

=============================================================================
